---- MODULE Spec2Model ----
(***************************************************************************)
(* Model of the AMM reserve simulator (whale_sim_app.py) and of the yield  *)
(* formula engine (apy_tvl_app.py).                                        *)
(*                                                                         *)
(* Python floats are binary floating-point numbers: every +, -, * and /    *)
(* rounds its exact result to the nearest representable value, ties to     *)
(* even.  A float is modelled as <<m, e>> with value m * 2^e, where m = 0  *)
(* or 2^(PrecBits-1) <= |m| < 2^PrecBits.  binary64 has 53 significant     *)
(* bits; the model keeps the rounding rule and shrinks the precision to    *)
(* PrecBits.  The exponent is unbounded (no overflow to inf, no underflow).*)
(***************************************************************************)
EXTENDS Integers, Sequences, FiniteSets, TLC

\* ------------------------------------------------------------------ bounds
PrecBits == 13
MaxDays == 61

\* --------------------------------------------------- float arithmetic
Zero == <<0, 0>>

Abs(n) == IF n < 0 THEN -n ELSE n

\* number of significant bits of a natural number a < 2^30
BitLen(a) == CHOOSE L \in 0..30 : a < 2^L /\ (L = 0 \/ a >= 2^(L-1))

\* nearest float to n * 2^e, ties to even
Round(n, e) ==
  IF n = 0 THEN Zero
  ELSE LET s == IF n < 0 THEN -1 ELSE 1
           a == Abs(n)
           L == BitLen(a)
       IN IF L <= PrecBits
          THEN <<s * a * 2^(PrecBits - L), e - (PrecBits - L)>>
          ELSE LET sh == L - PrecBits
                   q == a \div 2^sh
                   r == a % 2^sh
                   half == 2^(sh - 1)
                   q1 == IF r > half \/ (r = half /\ q % 2 = 1) THEN q + 1 ELSE q
               IN IF q1 = 2^PrecBits
                  THEN <<s * (q1 \div 2), e + sh + 1>>
                  ELSE <<s * q1, e + sh>>

\* float(n) for an int n
FromInt(n) == Round(n, 0)

FNeg(a) == <<-a[1], a[2]>>

FMul(a, b) == Round(a[1] * b[1], a[2] + b[2])

\* a / b, b # 0: quotient to PrecBits+2 bits plus a sticky bit, then rounded
FDiv(a, b) ==
  IF a[1] = 0 THEN Zero
  ELSE LET s == IF (a[1] < 0) # (b[1] < 0) THEN -1 ELSE 1
           n == Abs(a[1]) * 2^(PrecBits + 2)
           dd == Abs(b[1])
           q == n \div dd
           st == IF n % dd = 0 THEN 0 ELSE 1
       IN Round(s * (2 * q + st), a[2] - b[2] - PrecBits - 3)

\* a + b; an operand more than PrecBits+2 binary places below the other
\* cannot change the rounded sum
FAddOrd(hi, lo) ==
  IF hi[2] - lo[2] > PrecBits + 2 THEN hi
  ELSE Round(hi[1] * 2^(hi[2] - lo[2]) + lo[1], lo[2])

FAdd(a, b) ==
  IF a[1] = 0 THEN b
  ELSE IF b[1] = 0 THEN a
  ELSE IF a[2] >= b[2] THEN FAddOrd(a, b) ELSE FAddOrd(b, a)

FSub(a, b) == FAdd(a, FNeg(b))

PosLt(a, b) == a[2] < b[2] \/ (a[2] = b[2] /\ a[1] < b[1])

\* a < b
FLt(a, b) ==
  IF a[1] > 0 /\ b[1] > 0 THEN PosLt(a, b)
  ELSE IF a[1] < 0 /\ b[1] < 0 THEN PosLt(FNeg(b), FNeg(a))
  ELSE a[1] < b[1]

\* a <= b
FLe(a, b) == ~FLt(b, a)

\* Python's max(a, b): a unless b is greater
PyMax(a, b) == IF FLt(a, b) THEN b ELSE a

\* the float a decimal literal n/d denotes (n, d ints)
Dec(n, d) == FDiv(FromInt(n), FromInt(d))

One == FromInt(1)

\* ------------------------------------------------- whale_sim_app.py
DAILY_BLOCKS == FromInt(7200)
MINER_EMISSION_SHARE == Dec(41, 100)
BUYBACK_START_TAO == FromInt(20)
BUYBACK_INCREMENT_PER_DAY == Dec(5, 10)

\* slip: the no-op result carries the input added to the reserve
amm_swap_xy_noop_adds(x_reserve, y_reserve, dx) ==
  IF FLe(dx, Zero) THEN <<Zero, FAdd(x_reserve, dx), y_reserve>>
  ELSE LET k == FMul(x_reserve, y_reserve)
           new_x == FAdd(x_reserve, dx)
           new_y == FDiv(k, new_x)
           dy_out == FSub(y_reserve, new_y)
       IN <<dy_out, new_x, new_y>>

\* slip: the input is taken out of the reserve instead of added to it
amm_swap_xy_sub(x_reserve, y_reserve, dx) ==
  IF FLe(dx, Zero) THEN <<Zero, x_reserve, y_reserve>>
  ELSE LET k == FMul(x_reserve, y_reserve)
           new_x == FSub(x_reserve, dx)
           new_y == FDiv(k, new_x)
           dy_out == FSub(y_reserve, new_y)
       IN <<dy_out, new_x, new_y>>

\* amm_swap_xy(x_reserve, y_reserve, dx) = <<dy_out, new_x, new_y>>
amm_swap_xy(x_reserve, y_reserve, dx) ==
  IF FLe(dx, Zero) THEN <<Zero, x_reserve, y_reserve>>
  ELSE LET k == FMul(x_reserve, y_reserve)
           new_x == FAdd(x_reserve, dx)
           new_y == FDiv(k, new_x)
           dy_out == FSub(y_reserve, new_y)
       IN <<dy_out, new_x, new_y>>

\* 1e-12, the floor under a divisor (1e12 = 5^12 * 2^12)
EPS == FDiv(One, Round(244140625, 12))

\* fetch_reserves: the oracle's reserves, floored at 1.0
fetch_reserves(tao_in, alpha_in) == <<PyMax(One, tao_in), PyMax(One, alpha_in)>>

VARIABLES
  pc,                      \* position in simulate
  days, tao_reserve_init, alpha_reserve_init,
  whale_daily_buy_tao, buy_days, include_buyback,     \* arguments of simulate
  d, price, tao_r, alpha_r,
  whale_alpha_holdings, whale_tao_spent_cum, whale_tao_value,
  records,
  swap_log,                \* the swaps applied so far in the current day
  sw_pc, sw_x, sw_y, sw_dx, sw_ret,                  \* a call of amm_swap_xy
  rw_pc, tvl, turnover_rate, utilization_rate, rw_price, burn_percentage,
  rw_ret                                             \* a call of compute_daily_rewards

args == <<days, tao_reserve_init, alpha_reserve_init,
          whale_daily_buy_tao, buy_days, include_buyback>>
simVars == <<pc, args, d, price, tao_r, alpha_r,
             whale_alpha_holdings, whale_tao_spent_cum, whale_tao_value, records,
             swap_log>>
swVars == <<sw_pc, sw_x, sw_y, sw_dx, sw_ret>>
rwVars == <<rw_pc, tvl, turnover_rate, utilization_rate, rw_price, burn_percentage,
            rw_ret>>
vars == <<simVars, swVars, rwVars>>

\* ------------------------------------------------------------ simulate
OracleReserves == {Zero, FromInt(1000)}
DaysSet == {0, 1, MaxDays}
WhaleBuys == {Zero, FromInt(300), Dec(1, 10)}
BuyDaysSet == {-1, 0, 2, MaxDays + 5}

Max0(n) == IF n > 0 THEN n ELSE 0

\* slip: the day numbered buy_days still buys
in_buy_phase_le == FLt(Zero, whale_daily_buy_tao) /\ d <= Max0(buy_days)

in_buy_phase == FLt(Zero, whale_daily_buy_tao) /\ d < Max0(buy_days)

buyback_tao(day) == FAdd(BUYBACK_START_TAO, FMul(BUYBACK_INCREMENT_PER_DAY, FromInt(day)))

emission_factor(day) == IF day >= 60 THEN Dec(5, 10) ELSE One

dynamic_burn(day) == PyMax(FSub(Dec(5, 10), FMul(Dec(1, 100), FromInt(day))), Dec(3, 10))

miner_alpha_sell(day) == FMul(FMul(DAILY_BLOCKS, MINER_EMISSION_SHARE), dynamic_burn(day))

\* the log after a swap of dx at the given step returned r
Logged(step, dx, r) == Append(swap_log, [step |-> step, dx |-> dx, dy |-> r[1]])

SwapIdle ==
  /\ sw_pc = "idle"
  /\ sw_x = Zero /\ sw_y = Zero /\ sw_dx = Zero
  /\ sw_ret = <<Zero, Zero, Zero>>

RewardsIdle ==
  /\ rw_pc = "idle"
  /\ tvl = Zero /\ turnover_rate = Zero /\ utilization_rate = Zero
  /\ rw_price = Zero /\ burn_percentage = Zero
  /\ rw_ret = <<Zero, Zero, Zero>>

\* simulate is entered with the reserves fetch_reserves returned and the
\* values of the sidebar widgets; lines 39-43 have run
Init ==
  /\ pc = "for"
  /\ days \in DaysSet
  /\ \E tao_in \in OracleReserves, alpha_in \in OracleReserves :
       /\ tao_reserve_init = fetch_reserves(tao_in, alpha_in)[1]
       /\ alpha_reserve_init = fetch_reserves(tao_in, alpha_in)[2]
  /\ whale_daily_buy_tao \in WhaleBuys
  /\ buy_days \in BuyDaysSet
  /\ include_buyback \in BOOLEAN
  /\ d = 0
  /\ price = Zero
  /\ tao_r = tao_reserve_init
  /\ alpha_r = alpha_reserve_init
  /\ whale_alpha_holdings = Zero
  /\ whale_tao_spent_cum = Zero
  /\ whale_tao_value = Zero
  /\ records = <<>>
  /\ swap_log = <<>>
  /\ SwapIdle
  /\ RewardsIdle

\* for d in range(days): price = tao_r / alpha_r
ForIter ==
  /\ pc = "for"
  /\ d < days
  /\ price' = FDiv(tao_r, alpha_r)
  /\ pc' = "whale"
  /\ swap_log' = <<>>
  /\ UNCHANGED <<args, d, tao_r, alpha_r, whale_alpha_holdings,
                 whale_tao_spent_cum, whale_tao_value, records, swVars, rwVars>>

\* the whale's swap of the buy phase
WhaleBuy ==
  /\ pc = "whale"
  /\ in_buy_phase
  /\ LET r == amm_swap_xy(tao_r, alpha_r, whale_daily_buy_tao)
     IN /\ tao_r' = r[2]
        /\ alpha_r' = r[3]
        /\ whale_alpha_holdings' = FAdd(whale_alpha_holdings, r[1])
        /\ whale_tao_spent_cum' = FAdd(whale_tao_spent_cum, whale_daily_buy_tao)
        /\ swap_log' = Logged("whale", whale_daily_buy_tao, r)
  /\ pc' = "counter"
  /\ UNCHANGED <<args, d, price, whale_tao_value, records, swVars, rwVars>>

\* a day outside the buy phase
WhaleSkip ==
  /\ pc = "whale"
  /\ ~in_buy_phase
  /\ pc' = "buyback"
  /\ UNCHANGED <<args, d, price, tao_r, alpha_r, whale_alpha_holdings,
                 whale_tao_spent_cum, whale_tao_value, records, swap_log, swVars, rwVars>>

\* the counter-sell that follows the whale's swap
CounterSell ==
  /\ pc = "counter"
  /\ LET counter_alpha_sell ==
           FDiv(FMul(Dec(25, 100), whale_daily_buy_tao), PyMax(price, EPS))
         r == amm_swap_xy(alpha_r, tao_r, counter_alpha_sell)
     IN IF FLt(Zero, counter_alpha_sell)
        THEN /\ alpha_r' = r[2]
             /\ tao_r' = r[3]
             /\ swap_log' = Logged("counter", counter_alpha_sell, r)
        ELSE UNCHANGED <<alpha_r, tao_r, swap_log>>
  /\ pc' = "buyback"
  /\ UNCHANGED <<args, d, price, whale_alpha_holdings, whale_tao_spent_cum,
                 whale_tao_value, records, swVars, rwVars>>

\* slip: the buyback sits inside the buy-phase block
Buyback_in_phase ==
  /\ pc = "buyback"
  /\ LET r == amm_swap_xy(tao_r, alpha_r, buyback_tao(d))
     IN IF in_buy_phase /\ include_buyback /\ FLt(Zero, buyback_tao(d))
        THEN /\ tao_r' = r[2]
             /\ alpha_r' = r[3]
             /\ swap_log' = Logged("buyback", buyback_tao(d), r)
        ELSE UNCHANGED <<tao_r, alpha_r, swap_log>>
  /\ pc' = "emission"
  /\ UNCHANGED <<args, d, price, whale_alpha_holdings, whale_tao_spent_cum,
                 whale_tao_value, records, swVars, rwVars>>

\* the protocol buyback
Buyback ==
  /\ pc = "buyback"
  /\ LET r == amm_swap_xy(tao_r, alpha_r, buyback_tao(d))
     IN IF include_buyback /\ FLt(Zero, buyback_tao(d))
        THEN /\ tao_r' = r[2]
             /\ alpha_r' = r[3]
             /\ swap_log' = Logged("buyback", buyback_tao(d), r)
        ELSE UNCHANGED <<tao_r, alpha_r, swap_log>>
  /\ pc' = "emission"
  /\ UNCHANGED <<args, d, price, whale_alpha_holdings, whale_tao_spent_cum,
                 whale_tao_value, records, swVars, rwVars>>

\* slip: the inflow is priced at the reserves of the moment
Emission_current_price ==
  /\ pc = "emission"
  /\ alpha_r' = FAdd(alpha_r, FMul(DAILY_BLOCKS, emission_factor(d)))
  /\ tao_r' = FAdd(tao_r, FMul(FMul(DAILY_BLOCKS, FDiv(tao_r, alpha_r)),
                               emission_factor(d)))
  /\ pc' = "miner"
  /\ UNCHANGED <<args, d, price, whale_alpha_holdings, whale_tao_spent_cum,
                 whale_tao_value, records, swap_log, swVars, rwVars>>

\* the emission inflow
Emission ==
  /\ pc = "emission"
  /\ alpha_r' = FAdd(alpha_r, FMul(DAILY_BLOCKS, emission_factor(d)))
  /\ tao_r' = FAdd(tao_r, FMul(FMul(DAILY_BLOCKS, price), emission_factor(d)))
  /\ pc' = "miner"
  /\ UNCHANGED <<args, d, price, whale_alpha_holdings, whale_tao_spent_cum,
                 whale_tao_value, records, swap_log, swVars, rwVars>>

\* slip: the miners' swap runs in the buy direction
MinerSell_reversed ==
  /\ pc = "miner"
  /\ LET r == amm_swap_xy(tao_r, alpha_r, miner_alpha_sell(d))
     IN IF FLt(Zero, miner_alpha_sell(d))
        THEN /\ tao_r' = r[2]
             /\ alpha_r' = r[3]
             /\ swap_log' = Logged("miner", miner_alpha_sell(d), r)
        ELSE UNCHANGED <<alpha_r, tao_r, swap_log>>
  /\ pc' = "mark"
  /\ UNCHANGED <<args, d, price, whale_alpha_holdings, whale_tao_spent_cum,
                 whale_tao_value, records, swVars, rwVars>>

\* the miners' sale of alpha
MinerSell ==
  /\ pc = "miner"
  /\ LET r == amm_swap_xy(alpha_r, tao_r, miner_alpha_sell(d))
     IN IF FLt(Zero, miner_alpha_sell(d))
        THEN /\ alpha_r' = r[2]
             /\ tao_r' = r[3]
             /\ swap_log' = Logged("miner", miner_alpha_sell(d), r)
        ELSE UNCHANGED <<alpha_r, tao_r, swap_log>>
  /\ pc' = "mark"
  /\ UNCHANGED <<args, d, price, whale_alpha_holdings, whale_tao_spent_cum,
                 whale_tao_value, records, swVars, rwVars>>

\* the value the whale's holdings would fetch from the current reserves
mark_value(alpha_res, tao_res, holdings) ==
  IF FLt(Zero, holdings)
  THEN LET k_val == FMul(alpha_res, tao_res)
           new_alpha_tmp == FAdd(alpha_res, holdings)
           new_tao_tmp == FDiv(k_val, PyMax(new_alpha_tmp, EPS))
       IN PyMax(FSub(tao_res, new_tao_tmp), Zero)
  ELSE Zero

\* slip: the valuation is carried out as a real swap on the reserves
MarkToMarket_liquidates ==
  /\ pc = "mark"
  /\ whale_tao_value' = mark_value(alpha_r, tao_r, whale_alpha_holdings)
  /\ LET r == amm_swap_xy(alpha_r, tao_r, whale_alpha_holdings)
     IN alpha_r' = r[2] /\ tao_r' = r[3]
  /\ pc' = "append"
  /\ UNCHANGED <<args, d, price, whale_alpha_holdings,
                 whale_tao_spent_cum, records, swap_log, swVars, rwVars>>

\* the whale's position marked to market
MarkToMarket ==
  /\ pc = "mark"
  /\ whale_tao_value' = mark_value(alpha_r, tao_r, whale_alpha_holdings)
  /\ pc' = "append"
  /\ UNCHANGED <<args, d, price, tao_r, alpha_r, whale_alpha_holdings,
                 whale_tao_spent_cum, records, swap_log, swVars, rwVars>>

DayRecord ==
  [day |-> d,
   price |-> FDiv(tao_r, alpha_r),
   tao_reserve |-> tao_r,
   alpha_reserve |-> alpha_r,
   whale_alpha |-> whale_alpha_holdings,
   whale_tao_spent |-> whale_tao_spent_cum,
   whale_tao_value |-> whale_tao_value]

\* slip: days are numbered from 1
AppendRecord_from_one ==
  /\ pc = "append"
  /\ records' = Append(records, [DayRecord EXCEPT !.day = d + 1])
  /\ d' = d + 1
  /\ pc' = "for"
  /\ UNCHANGED <<args, price, tao_r, alpha_r, whale_alpha_holdings,
                 whale_tao_spent_cum, whale_tao_value, swap_log, swVars, rwVars>>

\* records.append({...}) and the step of the loop to the next d
AppendRecord ==
  /\ pc = "append"
  /\ records' = Append(records, DayRecord)
  /\ d' = d + 1
  /\ pc' = "for"
  /\ UNCHANGED <<args, price, tao_r, alpha_r, whale_alpha_holdings,
                 whale_tao_spent_cum, whale_tao_value, swap_log, swVars, rwVars>>

\* range(days) is exhausted: return the records
Return ==
  /\ pc = "for"
  /\ d >= days
  /\ pc' = "done"
  /\ UNCHANGED <<args, d, price, tao_r, alpha_r, whale_alpha_holdings,
                 whale_tao_spent_cum, whale_tao_value, records, swap_log, swVars, rwVars>>

Next ==
  \/ ForIter
  \/ WhaleBuy
  \/ WhaleSkip
  \/ CounterSell
  \/ Buyback
  \/ Emission
  \/ MinerSell
  \/ MarkToMarket
  \/ AppendRecord
  \/ Return

Spec == Init /\ [][Next]_vars

\* ------------------------------------------------ amm_swap_xy on its own
SimIdle ==
  /\ pc = "idle"
  /\ days = 0 /\ tao_reserve_init = One /\ alpha_reserve_init = One
  /\ whale_daily_buy_tao = Zero /\ buy_days = 0 /\ include_buyback = FALSE
  /\ d = 0 /\ price = Zero /\ tao_r = One /\ alpha_r = One
  /\ whale_alpha_holdings = Zero /\ whale_tao_spent_cum = Zero
  /\ whale_tao_value = Zero /\ records = <<>> /\ swap_log = <<>>

SwapReserves == {FromInt(-2), Zero, FromInt(1), FromInt(3), Dec(1, 10), Dec(1, 3),
                 FromInt(7), FromInt(1000), FromInt(4097)}
SwapAmounts == {FromInt(-5), Zero, Dec(1, 1000000), FromInt(1), FromInt(20),
                FromInt(300), FromInt(8000)}

SwapInit ==
  /\ sw_pc = "call"
  /\ sw_x \in SwapReserves
  /\ sw_y \in SwapReserves
  /\ sw_dx \in SwapAmounts
  /\ sw_ret = <<Zero, Zero, Zero>>
  /\ SimIdle
  /\ RewardsIdle

SwapCall ==
  /\ sw_pc = "call"
  /\ sw_ret' = amm_swap_xy(sw_x, sw_y, sw_dx)
  /\ sw_pc' = "returned"
  /\ UNCHANGED <<sw_x, sw_y, sw_dx, simVars, rwVars>>

SwapNext == SwapCall

SwapSpec == SwapInit /\ [][SwapNext]_vars

\* ---------------------------------------------------- apy_tvl_app.py
EPOCHS_PER_DAY == FromInt(20)
BASE_TRADING_FEE == Dec(3, 1000)
BASE_BORROWING_FEE == Dec(5, 100000)
KINK == Dec(8, 10)
SLOPE1 == Dec(15, 100000)
SLOPE2 == Dec(8, 10000)
LP_FEE_SHARE == Dec(875, 1000)
TRADING_FEE_SHARE == Dec(3, 10)
BORROWING_FEE_SHARE == Dec(35, 100)

\* Python's min(a, b): a unless b is smaller
PyMin(a, b) == IF FLt(b, a) THEN b ELSE a

\* the branch of the borrowing rate taken when utilization_rate <= KINK
rate_below_kink(u) == FAdd(BASE_BORROWING_FEE, FDiv(FMul(u, SLOPE1), KINK))

\* slip: the rate above the kink restarts from the base fee
rate_above_kink_no_slope1(u) ==
  FAdd(BASE_BORROWING_FEE, FDiv(FMul(FSub(u, KINK), SLOPE2), FSub(One, KINK)))

\* the branch of the borrowing rate taken when utilization_rate > KINK
rate_above_kink(u) ==
  FAdd(FAdd(BASE_BORROWING_FEE, SLOPE1),
       FDiv(FMul(FSub(u, KINK), SLOPE2), FSub(One, KINK)))

borrow_rate_component(u) ==
  IF FLe(u, KINK) THEN rate_below_kink(u) ELSE rate_above_kink(u)

\* compute_daily_rewards(...) = <<trading fee, borrowing fee, total reward>>
compute_daily_rewards(tvl_, turnover_, u, price_, burn_) ==
  LET daily_lp_trading_fee_reward ==
        FMul(FMul(FMul(FMul(FMul(tvl_, turnover_), BASE_TRADING_FEE), FromInt(2)),
                  TRADING_FEE_SHARE), LP_FEE_SHARE)
      daily_lp_borrowing_fee_reward ==
        FMul(FMul(FMul(FMul(FMul(tvl_, u), borrow_rate_component(u)),
                       BORROWING_FEE_SHARE), LP_FEE_SHARE), EPOCHS_PER_DAY)
      lp_emission_share_effective ==
        PyMax(Zero, PyMin(One, FSub(One, FDiv(burn_, FromInt(100)))))
      daily_miner_emission ==
        FMul(FMul(FMul(price_, DAILY_BLOCKS), MINER_EMISSION_SHARE),
             lp_emission_share_effective)
      daily_lp_fee_reward ==
        FAdd(daily_lp_trading_fee_reward, daily_lp_borrowing_fee_reward)
      daily_lp_reward == FAdd(daily_lp_fee_reward, daily_miner_emission)
  IN <<daily_lp_trading_fee_reward, daily_lp_borrowing_fee_reward, daily_lp_reward>>

\* the utilization slider: 0.00 to 1.00 in steps of 0.01
UtilizationSteps == 0..100
TvlValues == {FromInt(5000), FromInt(100000)}
BurnValues == {Zero, FromInt(150)}

RewardsInit ==
  /\ rw_pc = "call"
  /\ tvl \in TvlValues
  /\ turnover_rate = One
  /\ \E n \in UtilizationSteps : utilization_rate = Dec(n, 100)
  /\ rw_price = Dec(1, 100)
  /\ burn_percentage \in BurnValues
  /\ rw_ret = <<Zero, Zero, Zero>>
  /\ SimIdle
  /\ SwapIdle

RewardsCall ==
  /\ rw_pc = "call"
  /\ rw_ret' = compute_daily_rewards(tvl, turnover_rate, utilization_rate,
                                     rw_price, burn_percentage)
  /\ rw_pc' = "returned"
  /\ UNCHANGED <<tvl, turnover_rate, utilization_rate, rw_price, burn_percentage,
                 simVars, swVars>>

RewardsNext == RewardsCall

RewardsSpec == RewardsInit /\ [][RewardsNext]_vars

\* ================================================================ claims

\* C1: simulate ends after exactly `days` iterations and returns exactly
\* `days` records whose day fields are 0, 1, ..., days-1 in order: one record
\* per day, none skipped or doubled, whatever the buy phase and the buyback
\* do, and a record once appended is never rewritten.  Termination: every
\* step lowers the count of steps left before the return.
C1_OneRecordPerDay ==
  /\ [](/\ Len(records) = d
        /\ d <= days
        /\ \A i \in 1..Len(records) : records[i].day = i - 1
        /\ (pc = "done" => d = days /\ Len(records) = days))
  /\ [][LET left(p) == CASE p = "for" -> 7 [] p = "whale" -> 6
                         [] p = "counter" -> 5 [] p = "buyback" -> 4
                         [] p = "emission" -> 3 [] p = "miner" -> 2
                         [] p = "mark" -> 1 [] OTHER -> 0
        IN /\ Len(records') >= Len(records)
           /\ \A i \in 1..Len(records) : records'[i] = records[i]
           /\ 8 * (days - d') + left(pc') < 8 * (days - d) + left(pc)]_vars

C1_Witness ==
  /\ pc = "done"
  /\ days = MaxDays
  /\ Len(records) = MaxDays
  /\ include_buyback
  /\ buy_days = 2
  /\ FLt(Zero, whale_tao_spent_cum)

\* C2: the mark-to-market step leaves tao_reserve, alpha_reserve, the whale's
\* holdings and the whale's cumulative spend unchanged; the reserves written
\* to record d are those left by the miner-sell step, and day d+1 starts from
\* exactly those reserves.
C2_MarkLeavesReserves ==
  /\ [][/\ (pc = "mark" =>
              UNCHANGED <<tao_r, alpha_r, whale_alpha_holdings, whale_tao_spent_cum>>)
        /\ (pc = "append" =>
              /\ records'[Len(records')].tao_reserve = tao_r
              /\ records'[Len(records')].alpha_reserve = alpha_r
              /\ UNCHANGED <<tao_r, alpha_r>>)
        /\ (pc = "for" => UNCHANGED <<tao_r, alpha_r>>)]_vars
  /\ []((pc = "whale" /\ d > 0) =>
          /\ records[d].tao_reserve = tao_r
          /\ records[d].alpha_reserve = alpha_r)

C2_Witness ==
  /\ pc = "whale"
  /\ d > 0
  /\ FLt(Zero, records[d].whale_tao_value)
  /\ records[d].tao_reserve = tao_r

\* C3: for reserveIn > 0, reserveOut > 0 and amountIn >= 0, amm_swap_xy
\* returns new reserves whose product is the old product up to rounding,
\* newReserveIn = reserveIn + amountIn, and
\* amountOut = reserveOut - newReserveOut >= 0.
C3_SwapInvariant ==
  (sw_pc = "returned" /\ FLt(Zero, sw_x) /\ FLt(Zero, sw_y) /\ FLe(Zero, sw_dx)) =>
    LET k == FMul(sw_x, sw_y)
        diff == FSub(FMul(sw_ret[2], sw_ret[3]), k)
        absdiff == IF diff[1] < 0 THEN FNeg(diff) ELSE diff
    IN /\ FLe(absdiff, FMul(k, <<2^(PrecBits - 1), 3 - 2 * PrecBits>>))
       /\ sw_ret[2] = FAdd(sw_x, sw_dx)
       /\ sw_ret[1] = FSub(sw_y, sw_ret[3])
       /\ FLe(Zero, sw_ret[1])

\* C4: for every amountIn <= 0 and every pair of reserves, amm_swap_xy
\* returns (0, reserveIn, reserveOut): no output and both reserves unchanged.
C4_NoOpSwap ==
  (sw_pc = "returned" /\ FLe(sw_dx, Zero)) => sw_ret = <<Zero, sw_x, sw_y>>

C4_Witness ==
  /\ sw_pc = "returned"
  /\ FLt(sw_dx, Zero)
  /\ FLt(Zero, sw_x)
  /\ sw_x # sw_y
  /\ sw_ret = <<Zero, sw_x, sw_y>>

C6_BuybackEveryDay ==
  /\ [](LET bb == SelectSeq(swap_log, LAMBDA s : s.step = "buyback")
            amount == FAdd(FromInt(20), FMul(Dec(5, 10), FromInt(d)))
        IN /\ (pc \in {"whale", "counter", "buyback"} => Len(bb) = 0)
           /\ (pc \in {"emission", "miner", "mark", "append"} =>
                 IF include_buyback
                 THEN /\ Len(bb) = 1
                      /\ bb[1].dx = amount
                      /\ (d = 0 => bb[1].dx = FromInt(20))
                 ELSE Len(bb) = 0)
           /\ \A i, j \in 1..Len(swap_log) :
                (swap_log[i].step = "buyback" /\ i < j) => swap_log[j].step = "miner")
  /\ [][pc = "buyback" =>
          /\ pc' = "emission"
          /\ LET amount == FAdd(FromInt(20), FMul(Dec(5, 10), FromInt(d)))
                 r == amm_swap_xy(tao_r, alpha_r, amount)
             IN IF include_buyback
                THEN tao_r' = r[2] /\ alpha_r' = r[3]
                ELSE UNCHANGED <<tao_r, alpha_r>>]_vars

C6_Witness ==
  /\ pc = "emission"
  /\ include_buyback
  /\ d > buy_days
  /\ buy_days = 2
  /\ FLt(Zero, whale_daily_buy_tao)
  /\ Len(swap_log) = 1
  /\ swap_log[1].step = "buyback"
  /\ swap_log[1].dx = FAdd(FromInt(20), FMul(Dec(5, 10), FromInt(d)))

\* C7: the borrowing-rate curve is continuous at the kink: at
\* utilization_rate = KINK = 0.80 the branch below the kink and the branch
\* above it give the same rate, BASE_BORROWING_FEE + SLOPE1, and that is the
\* rate compute_daily_rewards charges there.
C7_KinkContinuity ==
  (rw_pc = "returned" /\ utilization_rate = Dec(80, 100)) =>
    LET at_kink == FAdd(Dec(5, 100000), Dec(15, 100000))
    IN /\ rate_below_kink(utilization_rate) = at_kink
       /\ rate_above_kink(utilization_rate) = at_kink
       /\ rw_ret[2] = FMul(FMul(FMul(FMul(FMul(tvl, utilization_rate), at_kink),
                                     BORROWING_FEE_SHARE), LP_FEE_SHARE),
                           EPOCHS_PER_DAY)

C7_Witness ==
  /\ rw_pc = "returned"
  /\ utilization_rate = KINK
  /\ FLt(Zero, rw_ret[2])

\* C8: on every day d the emission step adds DAILY_BLOCKS * f to
\* alpha_reserve and DAILY_BLOCKS * f * p0 to tao_reserve, where p0 is
\* tao_reserve / alpha_reserve at the start of day d, before the day's whale
\* buy, counter-sell and buyback, and f is 1.0 for d < 60 and 0.5 for d >= 60.
C8_EmissionAtStartPrice ==
  [][pc = "emission" =>
       LET start_tao == IF d = 0 THEN tao_reserve_init ELSE records[d].tao_reserve
           start_alpha == IF d = 0 THEN alpha_reserve_init ELSE records[d].alpha_reserve
           p0 == FDiv(start_tao, start_alpha)
           f == IF d < 60 THEN One ELSE Dec(5, 10)
       IN /\ alpha_r' = FAdd(alpha_r, FMul(FromInt(7200), f))
          /\ tao_r' = FAdd(tao_r, FMul(FMul(FromInt(7200), f), p0))]_vars

C8_Witness ==
  /\ pc = "miner"
  /\ d >= 60
  /\ include_buyback
  /\ Len(swap_log) = 3
  /\ price # FDiv(tao_r, alpha_r)

\* C9 as claimed: the buy phase is active on day d exactly when d < buy_days
\* and whale_daily_buy_tao > 0; in every record d whale_tao_spent equals
\* whale_daily_buy_tao * min(d+1, max(0, buy_days)), whale_alpha is the sum of
\* the outputs of the whale's swaps of the active days up to d, and from day
\* buy_days on both are unchanged from the previous record.
C9_SpentIsProduct ==
  LET active(day) == day < buy_days /\ FLt(Zero, whale_daily_buy_tao)
      wl == SelectSeq(swap_log, LAMBDA s : s.step = "whale")
      prev_alpha == IF d = 0 THEN Zero ELSE records[d].whale_alpha
      prev_spent == IF d = 0 THEN Zero ELSE records[d].whale_tao_spent
      min(a, b) == IF a < b THEN a ELSE b
  IN /\ (pc = "whale" =>
           /\ Len(wl) = 0
           /\ whale_alpha_holdings = prev_alpha
           /\ whale_tao_spent_cum = prev_spent)
     /\ (pc \in {"counter", "buyback", "emission", "miner", "mark", "append"} =>
           IF active(d)
           THEN /\ Len(wl) = 1
                /\ wl[1].dx = whale_daily_buy_tao
                /\ whale_alpha_holdings = FAdd(prev_alpha, wl[1].dy)
           ELSE /\ Len(wl) = 0
                /\ whale_alpha_holdings = prev_alpha
                /\ whale_tao_spent_cum = prev_spent)
     /\ \A i \in 1..Len(records) :
          /\ records[i].whale_tao_spent =
               FMul(whale_daily_buy_tao, FromInt(min(i, Max0(buy_days))))
          /\ (i > 1 /\ i - 1 >= buy_days) =>
               /\ records[i].whale_alpha = records[i-1].whale_alpha
               /\ records[i].whale_tao_spent = records[i-1].whale_tao_spent

\* C9 as amended: as above, but whale_tao_spent of record d is the running
\* float sum that adds whale_daily_buy_tao once per active day (to the
\* previous record's value, from 0.0), which agrees with the product
\* whale_daily_buy_tao * min(d+1, max(0, buy_days)) up to the rounding of the
\* additions.
C9_SpentIsRunningSum ==
  LET active(day) == day < buy_days /\ FLt(Zero, whale_daily_buy_tao)
      wl == SelectSeq(swap_log, LAMBDA s : s.step = "whale")
      prev_alpha == IF d = 0 THEN Zero ELSE records[d].whale_alpha
      prev_spent == IF d = 0 THEN Zero ELSE records[d].whale_tao_spent
      min(a, b) == IF a < b THEN a ELSE b
  IN /\ (pc = "whale" =>
           /\ Len(wl) = 0
           /\ whale_alpha_holdings = prev_alpha
           /\ whale_tao_spent_cum = prev_spent)
     /\ (pc \in {"counter", "buyback", "emission", "miner", "mark", "append"} =>
           IF active(d)
           THEN /\ Len(wl) = 1
                /\ wl[1].dx = whale_daily_buy_tao
                /\ whale_alpha_holdings = FAdd(prev_alpha, wl[1].dy)
                /\ whale_tao_spent_cum = FAdd(prev_spent, whale_daily_buy_tao)
           ELSE /\ Len(wl) = 0
                /\ whale_alpha_holdings = prev_alpha
                /\ whale_tao_spent_cum = prev_spent)
     /\ \A i \in 1..Len(records) :
          LET before == IF i = 1 THEN Zero ELSE records[i-1].whale_tao_spent
              n == min(i, Max0(buy_days))
              product == FMul(whale_daily_buy_tao, FromInt(n))
              diff == FSub(records[i].whale_tao_spent, product)
              absdiff == IF diff[1] < 0 THEN FNeg(diff) ELSE diff
          IN /\ records[i].whale_tao_spent =
                  IF active(i - 1) THEN FAdd(before, whale_daily_buy_tao) ELSE before
             /\ FLe(absdiff, FMul(FMul(product, FromInt(n)),
                                  <<2^(PrecBits - 1), 2 - 2 * PrecBits>>))
             /\ (i > 1 /\ i - 1 >= buy_days) =>
                  /\ records[i].whale_alpha = records[i-1].whale_alpha
                  /\ records[i].whale_tao_spent = records[i-1].whale_tao_spent

C9_Witness ==
  /\ pc = "done"
  /\ days = MaxDays
  /\ buy_days = 2
  /\ whale_daily_buy_tao = FromInt(300)
  /\ records[2].whale_tao_spent = FromInt(600)
  /\ records[MaxDays].whale_tao_spent = FromInt(600)
  /\ FLt(Zero, records[MaxDays].whale_alpha)

====
